---- MODULE Spec2Model ----
(***************************************************************************)
(* The Fileglancer demo service (src/demo_service.py): the lifecycle of    *)
(* main() -- port allocation, bind, publication of the service URL file,   *)
(* signal handling, serve_forever, shutdown -- and the request handler     *)
(* DemoHandler (do_GET, translate_path).                                   *)
(*                                                                         *)
(* Standard-library calls are modelled by their documented behaviour:      *)
(*   socketserver.BaseServer.shutdown(): sets the shutdown request and     *)
(*     waits for serve_forever() to finish; called on the thread that runs *)
(*     serve_forever() it never returns.                                   *)
(*   signal handlers run on the main thread, between its instructions.     *)
(*   open(path, "w") creates or truncates; os.remove raises on a missing   *)
(*     file.                                                               *)
(***************************************************************************)
EXTENDS Integers, Sequences, FiniteSets, TLC

(***************************************************************************)
(* Bounds of the model and program constants                               *)
(***************************************************************************)
\* find_free_port(start=8080, ...)
RangeStart == 8080
\* number of ports of the probe range the model keeps (the program: 920)
RangeLen == 2
\* signals delivered in one run
MaxSignals == 2
\* tokens of a request path
MaxTokens == 5
\* readings the clock takes after the start of the process
MaxTicks == 2
\* largest --repeat of demo.py
MaxRepeat == 3

RangeEnd == RangeStart + RangeLen
RangePorts == RangeStart .. (RangeEnd - 1)
\* --port values: negative and 0 select auto mode, the others are taken as is
RequestedPorts == {-1, 0, RangeStart + 1, 7000}
Ports == RangePorts \cup {p \in RequestedPorts : p > 0}
Signals == {"SIGTERM", "SIGINT"}
\* socket.gethostname() values
Hostnames == {<<"v", "m">>, <<"n", "1">>}
\* SERVICE_URL_PATH: unset, or the path of the discovery file
UrlPaths == {"", "/job/service_url"}
\* content a previous run may have left in the discovery file
StaleData == <<"h", "t", "t", "p", ":", "/", "/", "o", "l", "d", ":", "9", "9", "9", "9", "9">>

VARIABLES
  pc,              \* position of the main thread in main()
  reqPort,         \* args.port
  urlPath,         \* service_url_path
  hostname,        \* hostname (line 157)
  port,            \* the local variable port (0: not yet assigned)
  probeLog,        \* the test binds of find_free_port, in order: [port, free]
  occupied,        \* ports other processes hold
  listener,        \* the server socket: "none", "open", "closed"
  boundPort,       \* the port the server socket is bound to (0: none)
  file,            \* the discovery file: [exists, data, own]
  handlers,        \* signals whose handler is shutdown_handler
  shutdownRequest, \* BaseServer.__shutdown_request
  isShutDown,      \* BaseServer.__is_shut_down (threading.Event)
  blocked,         \* shutdown_handler frames waiting in server.shutdown()
  pending,         \* exception travelling through the finally block
  error,           \* what ended the process abnormally
  exitStatus,      \* "none" while running, else the exit status
  pubResult,       \* write_service_url: "none", "written", then "verified" or "missing"
  nSignals,        \* signals delivered
  nHandled,        \* shutdown_handler invocations
  sigServing,      \* a signal was handled while the main thread was in serve_forever
  nClose,          \* server_close() calls of the finally block
  nRemove,         \* os.remove calls that removed the discovery file
  warned,          \* the warning of line 154 was logged
  serveDir,        \* args.serve_dir (<<>>: not given)
  rpc,             \* request handling: "idle", "handling", "done"
  reqPath,         \* self.path of the request being handled
  resp,            \* the response sent: [status, kind, path], path the file system path looked up
  message,         \* args.message
  now,             \* datetime.now(), in seconds since the process started
  nTicks,          \* steps the clock has taken
  startTime,       \* self._start_time of the handler of the request (-1: no handler)
  out,             \* what the handler wrote: Content-Type, Content-Length, body, page fields
  dpc,             \* demo.py: position of main()
  repeat,          \* demo.py: args.repeat
  sleepSeconds,    \* demo.py: args.sleep_seconds
  outputDir,       \* demo.py: args.output_dir
  verbose,         \* demo.py: args.verbose
  iter,            \* demo.py: the loop variable i (0 before the first iteration)
  dlog,            \* demo.py: the prints of the loop and the calls of sleep, makedirs, open, in order
  dirExists,       \* demo.py: the output directory exists
  marker           \* demo.py: demo-output.txt: "absent", "old", "open", "written"

lvars == <<pc, reqPort, urlPath, hostname, port, probeLog, occupied, listener,
           boundPort, file, handlers, shutdownRequest, isShutDown, blocked,
           pending, error, exitStatus, pubResult, nSignals, nHandled,
           sigServing, nClose, nRemove, warned>>

rvars == <<serveDir, rpc, reqPath, resp>>

hvars == <<message, now, nTicks, startTime, out>>

dvars == <<dpc, repeat, sleepSeconds, outputDir, verbose, iter, dlog, dirExists, marker>>

vars == <<lvars, rvars, hvars, dvars>>

(***************************************************************************)
(* Text: strings are sequences of one-character strings                    *)
(***************************************************************************)
DigitChars == <<"0", "1", "2", "3", "4", "5", "6", "7", "8", "9">>

\* str(n) for n >= 0, as the f-string formats an int
RECURSIVE DecStr(_)
DecStr(n) ==
  IF n < 10 THEN <<DigitChars[n + 1]>>
  ELSE DecStr(n \div 10) \o <<DigitChars[(n % 10) + 1]>>

\* f"http://{hostname}:{port}"
MakeUrl(h, p) == <<"h", "t", "t", "p", ":", "/", "/">> \o h \o <<":">> \o DecStr(p)

NoFile == [exists |-> FALSE, data |-> <<>>, own |-> FALSE]

Alive == pc # "Stopped"
\* the main thread runs unless a signal handler on it waits in server.shutdown()
Running == Alive /\ blocked = 0

\* process exit: the OS closes the server socket
SocketAtExit == IF listener = "open" THEN "closed" ELSE listener

(***************************************************************************)
(* Paths: posixpath.normpath, urllib.parse.unquote, os.path.join           *)
(***************************************************************************)
\* s.split(sep)
RECURSIVE Split(_, _)
Split(s, sep) ==
  IF \A i \in 1 .. Len(s) : s[i] # sep
    THEN <<s>>
    ELSE LET i == CHOOSE j \in 1 .. Len(s) :
                    s[j] = sep /\ \A k \in 1 .. (j - 1) : s[k] # sep
         IN <<SubSeq(s, 1, i - 1)>> \o Split(SubSeq(s, i + 1, Len(s)), sep)

\* sep.join(parts)
RECURSIVE JoinWith(_, _)
JoinWith(parts, sep) ==
  IF parts = <<>> THEN <<>>
  ELSE IF Len(parts) = 1 THEN parts[1]
  ELSE parts[1] \o <<sep>> \o JoinWith(Tail(parts), sep)

StartsWith(s, pre) == Len(pre) <= Len(s) /\ SubSeq(s, 1, Len(pre)) = pre
EndsWith(s, ch) == Len(s) > 0 /\ s[Len(s)] = ch

DotSeg == <<".">>
DotDotSeg == <<".", ".">>

\* the loop of posixpath.normpath over the components
RECURSIVE NormComps(_, _, _)
NormComps(comps, acc, initial) ==
  IF comps = <<>> THEN acc
  ELSE LET c == Head(comps) IN
       IF c = <<>> \/ c = DotSeg
         THEN NormComps(Tail(comps), acc, initial)
       ELSE IF \/ c # DotDotSeg
               \/ (initial = 0 /\ acc = <<>>)
               \/ (acc # <<>> /\ acc[Len(acc)] = DotDotSeg)
         THEN NormComps(Tail(comps), Append(acc, c), initial)
       ELSE IF acc # <<>>
         THEN NormComps(Tail(comps), SubSeq(acc, 1, Len(acc) - 1), initial)
       ELSE NormComps(Tail(comps), acc, initial)

\* posixpath.normpath(path)
Normpath(path) ==
  IF path = <<>> THEN DotSeg
  ELSE LET initial == IF path[1] # "/" THEN 0
                      ELSE IF Len(path) >= 2 /\ path[2] = "/"
                              /\ ~(Len(path) >= 3 /\ path[3] = "/")
                        THEN 2
                      ELSE 1
           joined == JoinWith(NormComps(Split(path, "/"), <<>>, initial), "/")
           res == [i \in 1 .. initial |-> "/"] \o joined
       IN IF res = <<>> THEN DotSeg ELSE res

HexDigits == {"0", "1", "2", "3", "4", "5", "6", "7", "8", "9",
              "a", "b", "c", "d", "e", "f", "A", "B", "C", "D", "E", "F"}

\* the character of a %XX escape; bytes that are no ASCII character decode
\* (errors='replace') to U+FFFD
HexChar(h1, h2) ==
  CASE h1 = "2" /\ h2 \in {"e", "E"} -> "."
    [] h1 = "2" /\ h2 \in {"f", "F"} -> "/"
    [] h1 = "2" /\ h2 = "5" -> "%"
    [] h1 = "2" /\ h2 = "0" -> " "
    [] h1 = "3" /\ h2 \in {"f", "F"} -> "?"
    [] h1 = "5" /\ h2 \in {"c", "C"} -> "\\"
    [] OTHER -> "U+FFFD"

\* urllib.parse.unquote(s): a % followed by two hex digits is the character
\* they encode, every other character stands for itself
RECURSIVE Unquote(_)
Unquote(s) ==
  IF s = <<>> THEN <<>>
  ELSE IF s[1] = "%" /\ Len(s) >= 3 /\ s[2] \in HexDigits /\ s[3] \in HexDigits
    THEN <<HexChar(s[2], s[3])>> \o Unquote(SubSeq(s, 4, Len(s)))
  ELSE <<s[1]>> \o Unquote(Tail(s))

\* os.path.join(a, b) of posixpath
OsPathJoin(a, b) ==
  IF StartsWith(b, <<"/">>) THEN b
  ELSE IF a = <<>> \/ EndsWith(a, "/") THEN a \o b
  ELSE a \o <<"/">> \o b

(***************************************************************************)
(* The file system the handler reads, and the request paths of the model   *)
(***************************************************************************)
HealthName == <<"h", "e", "a", "l", "t", "h">>
\* os.getcwd(), the directory SimpleHTTPRequestHandler serves by default
Cwd == <<"/", "w">>
\* --serve_dir values: not given, a directory, the same with a trailing slash
ServeDirs == {<<>>, <<"/", "r">>, <<"/", "r", "/">>}

\* directories and regular files, each the sequence of its path segments:
\* /r and /w each hold a file x, a file health and a directory xx with a
\* file x; /x is a file outside both
FsDirs == {<<>>, <<<<"r">>>>, <<<<"w">>>>,
           <<<<"r">>, <<"x", "x">>>>, <<<<"w">>, <<"x", "x">>>>}
FsFiles == {<<<<"x">>>>,
            <<<<"r">>, <<"x">>>>, <<<<"w">>, <<"x">>>>,
            <<<<"r">>, HealthName>>, <<<<"w">>, HealthName>>,
            <<<<"r">>, <<"x", "x">>, <<"x">>>>, <<<<"w">>, <<"x", "x">>, <<"x">>>>}

\* the segments the operating system walks for a path: "." and empty
\* segments stay in place, ".." goes to the parent
RECURSIVE Walk(_, _)
Walk(segs, at) ==
  IF segs = <<>> THEN at
  ELSE LET c == Head(segs) IN
       IF c = <<>> \/ c = DotSeg THEN Walk(Tail(segs), at)
       ELSE IF c = DotDotSeg
         THEN Walk(Tail(segs), IF at = <<>> THEN at ELSE SubSeq(at, 1, Len(at) - 1))
       ELSE Walk(Tail(segs), Append(at, c))

OsResolve(path) ==
  Walk(Split(path, "/"), IF StartsWith(path, <<"/">>) THEN <<>> ELSE Walk(Split(Cwd, "/"), <<>>))

\* os.path.isdir(path)
IsDir(path) == OsResolve(path) \in FsDirs
\* open(path, 'rb') succeeds; os.path.isfile(path)
IsFile(path) == OsResolve(path) \in FsFiles /\ ~EndsWith(path, "/")

\* the pieces request paths are made of
PathTokens == {<<"/">>, <<".">>, <<".", ".">>, <<"x">>, <<"%", "2", "e">>,
               <<"%", "2", "f">>, <<"%", "2", "5">>, <<"%">>}

RECURSIVE Flatten(_)
Flatten(ss) == IF ss = <<>> THEN <<>> ELSE Head(ss) \o Flatten(Tail(ss))

ReqPaths ==
  {Flatten(t) : t \in UNION {[1 .. k -> PathTokens] : k \in 0 .. MaxTokens}}
    \cup {<<"/">> \o HealthName, <<"/">> \o HealthName \o <<"/">>,
          <<"/", "x", "x", "/", "x">>, <<"/", "x", "x", "/", ".", ".", "/", "x">>}

(***************************************************************************)
(* DemoHandler                                                             *)
(***************************************************************************)
\* mutant: the loop without the test for ".."
RECURSIVE JoinParts_KeepDotDot(_, _)
JoinParts_KeepDotDot(result, parts) ==
  IF parts = <<>> THEN result
  ELSE LET part == Head(parts) IN
       IF part = <<>> \/ part = DotSeg THEN JoinParts_KeepDotDot(result, Tail(parts))
       ELSE JoinParts_KeepDotDot(OsPathJoin(result, part), Tail(parts))

\* mutant: ".." goes up one level of the result, as a file system would
RECURSIVE JoinParts_Ascend(_, _)
JoinParts_Ascend(result, parts) ==
  IF parts = <<>> THEN result
  ELSE LET part == Head(parts) IN
       IF part = <<>> \/ part = DotSeg THEN JoinParts_Ascend(result, Tail(parts))
       ELSE IF part = DotDotSeg
         THEN LET segs == Split(result, "/")
              IN JoinParts_Ascend(JoinWith(SubSeq(segs, 1, Len(segs) - 1), "/"), Tail(parts))
       ELSE JoinParts_Ascend(OsPathJoin(result, part), Tail(parts))

\* the for loop of DemoHandler.translate_path
RECURSIVE JoinParts(_, _)
JoinParts(result, parts) ==
  IF parts = <<>> THEN result
  ELSE LET part == Head(parts) IN
       IF part = <<>> \/ part = DotSeg THEN JoinParts(result, Tail(parts))
       ELSE IF part = DotDotSeg THEN JoinParts(result, Tail(parts))
       ELSE JoinParts(OsPathJoin(result, part), Tail(parts))

\* DemoHandler.translate_path with self._serve_dir set
ServeDirPath(dir, path) ==
  JoinParts(dir, Split(Unquote(Normpath(path)), "/"))

\* path.split(ch, 1)[0]
CutAt(s, ch) ==
  IF \A i \in 1 .. Len(s) : s[i] # ch THEN s
  ELSE SubSeq(s, 1, (CHOOSE j \in 1 .. Len(s) :
                       s[j] = ch /\ \A k \in 1 .. (j - 1) : s[k] # ch) - 1)

\* the for loop of SimpleHTTPRequestHandler.translate_path
RECURSIVE JoinWords(_, _)
JoinWords(result, words) ==
  IF words = <<>> THEN result
  ELSE LET word == Head(words) IN
       IF word = <<>> \/ word = DotSeg \/ word = DotDotSeg
         THEN JoinWords(result, Tail(words))
       ELSE JoinWords(OsPathJoin(result, word), Tail(words))

\* super().translate_path(path): SimpleHTTPRequestHandler.translate_path with
\* self.directory = os.getcwd()
StdTranslatePath(path) ==
  LET p == CutAt(CutAt(path, "?"), "#")
      joined == JoinWords(Cwd, Split(Normpath(Unquote(p)), "/"))
  IN IF EndsWith(p, "/") THEN joined \o <<"/">> ELSE joined

\* DemoHandler.translate_path
TranslatePath(dir, path) ==
  IF dir # <<>> THEN ServeDirPath(dir, path) ELSE StdTranslatePath(path)

\* urllib.parse.urlsplit(self.path).path
UrlSplitPath(path) ==
  LET p == CutAt(CutAt(path, "#"), "?") IN
    IF StartsWith(p, <<"/", "/">>)
      THEN LET rest == SubSeq(p, 3, Len(p))
               net == CutAt(rest, "/")
           IN SubSeq(rest, Len(net) + 1, Len(rest))
      ELSE p

IndexNames == {<<"i", "n", "d", "e", "x", ".", "h", "t", "m", "l">>,
               <<"i", "n", "d", "e", "x", ".", "h", "t", "m">>}

Response(status, kind, path) == [status |-> status, kind |-> kind, path |-> path]
NoResponse == Response(0, "none", <<>>)

\* super().do_GET(): SimpleHTTPRequestHandler.send_head on the translated path
SendHead(dir, path) ==
  LET t == TranslatePath(dir, path) IN
    IF IsDir(t)
      THEN IF ~EndsWith(UrlSplitPath(path), "/")
             THEN Response(301, "redirect", t)
           ELSE IF \E ix \in IndexNames : IsFile(OsPathJoin(t, ix))
             THEN Response(200, "file",
                           OsPathJoin(t, CHOOSE ix \in IndexNames : IsFile(OsPathJoin(t, ix))))
           ELSE Response(200, "listing", t)
    ELSE IF EndsWith(t, "/") THEN Response(404, "error", t)
    ELSE IF IsFile(t) THEN Response(200, "file", t)
    ELSE Response(404, "error", t)

\* mutant: the static resolver is asked before the fixed endpoints
DoGetResponse_StaticFirst(dir, path) ==
  IF dir # <<>> /\ SendHead(dir, path).status = 200 THEN SendHead(dir, path)
  ELSE IF path = <<"/">> \/ path = <<>> THEN Response(200, "status_page", <<>>)
  ELSE IF path = <<"/">> \o HealthName THEN Response(200, "health", <<>>)
  ELSE SendHead(dir, path)

\* DemoHandler.do_GET
DoGetResponse(dir, path) ==
  IF path = <<"/">> \/ path = <<>> THEN Response(200, "status_page", <<>>)
  ELSE IF path = <<"/">> \o HealthName THEN Response(200, "health", <<>>)
  ELSE SendHead(dir, path)

(***************************************************************************)
(* The status page and the health answer                                   *)
(***************************************************************************)
\* --message: the default, and texts with characters of 2, 3 and 4 UTF-8 bytes
DefaultMessage ==
  <<"H", "e", "l", "l", "o", " ", "f", "r", "o", "m", " ",
    "F", "i", "l", "e", "g", "l", "a", "n", "c", "e", "r", "!">>
Messages == {DefaultMessage, <<"h", "i">>, <<"c", "a", "f", "U+00E9">>,
             <<"U+20AC", "U+1F600">>}

\* os.getpid()
Pid == 4242
\* the reading of the clock when the process starts
ProcStart == 0
\* the seconds that pass between two readings of the clock
TickSteps == {1, 61, 3600}

\* the text of the page before {self._message}
HtmlUpToMessage ==
  <<"<", "!", "D", "O", "C", "T", "Y", "P", "E", " ", "h", "t", "m", "l",
    ">", "\n", "<", "h", "t", "m", "l", ">", "\n", "<", "h", "e", "a", "d",
    ">", "\n", " ", " ", " ", " ", "<", "t", "i", "t", "l", "e", ">", "D",
    "e", "m", "o", " ", "S", "e", "r", "v", "i", "c", "e", "<", "/", "t",
    "i", "t", "l", "e", ">", "\n", " ", " ", " ", " ", "<", "s", "t", "y",
    "l", "e", ">", "\n", " ", " ", " ", " ", " ", " ", " ", " ", "b", "o",
    "d", "y", " ", "{", " ", "f", "o", "n", "t", "-", "f", "a", "m", "i",
    "l", "y", ":", " ", "s", "y", "s", "t", "e", "m", "-", "u", "i", ",",
    " ", "s", "a", "n", "s", "-", "s", "e", "r", "i", "f", ";", " ", "m",
    "a", "x", "-", "w", "i", "d", "t", "h", ":", " ", "6", "0", "0", "p",
    "x", ";", " ", "m", "a", "r", "g", "i", "n", ":", " ", "4", "0", "p",
    "x", " ", "a", "u", "t", "o", ";", " ", "p", "a", "d", "d", "i", "n",
    "g", ":", " ", "0", " ", "2", "0", "p", "x", ";", " ", "}", "\n", " ",
    " ", " ", " ", " ", " ", " ", " ", ".", "s", "t", "a", "t", "u", "s",
    " ", "{", " ", "p", "a", "d", "d", "i", "n", "g", ":", " ", "1", "2",
    "p", "x", " ", "1", "6", "p", "x", ";", " ", "b", "o", "r", "d", "e",
    "r", "-", "r", "a", "d", "i", "u", "s", ":", " ", "8", "p", "x", ";",
    " ", "b", "a", "c", "k", "g", "r", "o", "u", "n", "d", ":", " ", "#",
    "e", "8", "f", "5", "e", "9", ";", " ", "b", "o", "r", "d", "e", "r",
    ":", " ", "1", "p", "x", " ", "s", "o", "l", "i", "d", " ", "#", "a",
    "5", "d", "6", "a", "7", ";", " ", "m", "a", "r", "g", "i", "n", ":",
    " ", "1", "6", "p", "x", " ", "0", ";", " ", "}", "\n", " ", " ", " ",
    " ", " ", " ", " ", " ", ".", "d", "o", "t", " ", "{", " ", "d", "i",
    "s", "p", "l", "a", "y", ":", " ", "i", "n", "l", "i", "n", "e", "-",
    "b", "l", "o", "c", "k", ";", " ", "w", "i", "d", "t", "h", ":", " ",
    "1", "0", "p", "x", ";", " ", "h", "e", "i", "g", "h", "t", ":", " ",
    "1", "0", "p", "x", ";", " ", "b", "o", "r", "d", "e", "r", "-", "r",
    "a", "d", "i", "u", "s", ":", " ", "5", "0", "%", ";", " ", "b", "a",
    "c", "k", "g", "r", "o", "u", "n", "d", ":", " ", "#", "4", "c", "a",
    "f", "5", "0", ";", " ", "m", "a", "r", "g", "i", "n", "-", "r", "i",
    "g", "h", "t", ":", " ", "8", "p", "x", ";", " ", "}", "\n", " ", " ",
    " ", " ", " ", " ", " ", " ", "c", "o", "d", "e", " ", "{", " ", "b",
    "a", "c", "k", "g", "r", "o", "u", "n", "d", ":", " ", "#", "f", "5",
    "f", "5", "f", "5", ";", " ", "p", "a", "d", "d", "i", "n", "g", ":",
    " ", "2", "p", "x", " ", "6", "p", "x", ";", " ", "b", "o", "r", "d",
    "e", "r", "-", "r", "a", "d", "i", "u", "s", ":", " ", "4", "p", "x",
    ";", " ", "f", "o", "n", "t", "-", "s", "i", "z", "e", ":", " ", "1",
    "4", "p", "x", ";", " ", "}", "\n", " ", " ", " ", " ", " ", " ", " ",
    " ", "h", "1", " ", "{", " ", "c", "o", "l", "o", "r", ":", " ", "#",
    "3", "3", "3", ";", " ", "}", "\n", " ", " ", " ", " ", " ", " ", " ",
    " ", "p", " ", "{", " ", "c", "o", "l", "o", "r", ":", " ", "#", "6",
    "6", "6", ";", " ", "l", "i", "n", "e", "-", "h", "e", "i", "g", "h",
    "t", ":", " ", "1", ".", "6", ";", " ", "}", "\n", " ", " ", " ", " ",
    "<", "/", "s", "t", "y", "l", "e", ">", "\n", "<", "/", "h", "e", "a",
    "d", ">", "\n", "<", "b", "o", "d", "y", ">", "\n", " ", " ", " ", " ",
    "<", "h", "1", ">", "D", "e", "m", "o", " ", "S", "e", "r", "v", "i",
    "c", "e", "<", "/", "h", "1", ">", "\n", " ", " ", " ", " ", "<", "d",
    "i", "v", " ", "c", "l", "a", "s", "s", "=", "\"", "s", "t", "a", "t",
    "u", "s", "\"", ">", "<", "s", "p", "a", "n", " ", "c", "l", "a", "s",
    "s", "=", "\"", "d", "o", "t", "\"", ">", "<", "/", "s", "p", "a", "n",
    ">", " ", "R", "u", "n", "n", "i", "n", "g", "<", "/", "d", "i", "v",
    ">", "\n", " ", " ", " ", " ", "<", "p", ">", "<", "s", "t", "r", "o",
    "n", "g", ">", "M", "e", "s", "s", "a", "g", "e", ":", "<", "/", "s",
    "t", "r", "o", "n", "g", ">", " ">>

\* ... between the message and the start time
HtmlUpToStarted ==
  <<"<", "/", "p", ">", "\n", " ", " ", " ", " ", "<", "p", ">", "<", "s",
    "t", "r", "o", "n", "g", ">", "S", "t", "a", "r", "t", "e", "d", ":",
    "<", "/", "s", "t", "r", "o", "n", "g", ">", " ">>

\* ... between the start time and the uptime
HtmlUpToUptime ==
  <<"<", "/", "p", ">", "\n", " ", " ", " ", " ", "<", "p", ">", "<", "s",
    "t", "r", "o", "n", "g", ">", "U", "p", "t", "i", "m", "e", ":", "<",
    "/", "s", "t", "r", "o", "n", "g", ">", " ">>

\* ... between the uptime and the hostname
HtmlUpToHostname ==
  <<"<", "/", "p", ">", "\n", " ", " ", " ", " ", "<", "p", ">", "<", "s",
    "t", "r", "o", "n", "g", ">", "H", "o", "s", "t", "n", "a", "m", "e",
    ":", "<", "/", "s", "t", "r", "o", "n", "g", ">", " ">>

\* ... between the hostname and the pid
HtmlUpToPid ==
  <<"<", "/", "p", ">", "\n", " ", " ", " ", " ", "<", "p", ">", "<", "s",
    "t", "r", "o", "n", "g", ">", "P", "I", "D", ":", "<", "/", "s", "t",
    "r", "o", "n", "g", ">", " ">>

\* ... after the pid
HtmlRest ==
  <<"<", "/", "p", ">", "\n", " ", " ", " ", " ", "<", "p", ">", "T", "h",
    "i", "s", " ", "i", "s", " ", "a", " ", "d", "e", "m", "o", " ", "s",
    "e", "r", "v", "i", "c", "e", " ", "f", "o", "r", " ", "t", "e", "s",
    "t", "i", "n", "g", " ", "F", "i", "l", "e", "g", "l", "a", "n", "c",
    "e", "r", "'", "s", " ", "s", "e", "r", "v", "i", "c", "e", "-", "t",
    "y", "p", "e", " ", "a", "p", "p", " ", "s", "u", "p", "p", "o", "r",
    "t", ".", "<", "/", "p", ">", "\n", " ", " ", " ", " ", "<", "p", ">",
    "E", "n", "d", "p", "o", "i", "n", "t", "s", ":", "<", "/", "p", ">",
    "\n", " ", " ", " ", " ", "<", "u", "l", ">", "\n", " ", " ", " ", " ",
    " ", " ", " ", " ", "<", "l", "i", ">", "<", "c", "o", "d", "e", ">",
    "/", "<", "/", "c", "o", "d", "e", ">", " ", "-", " ", "T", "h", "i",
    "s", " ", "s", "t", "a", "t", "u", "s", " ", "p", "a", "g", "e", "<",
    "/", "l", "i", ">", "\n", " ", " ", " ", " ", " ", " ", " ", " ", "<",
    "l", "i", ">", "<", "c", "o", "d", "e", ">", "/", "h", "e", "a", "l",
    "t", "h", "<", "/", "c", "o", "d", "e", ">", " ", "-", " ", "J", "S",
    "O", "N", " ", "h", "e", "a", "l", "t", "h", " ", "c", "h", "e", "c",
    "k", "<", "/", "l", "i", ">", "\n", " ", " ", " ", " ", "<", "/", "u",
    "l", ">", "\n", "<", "/", "b", "o", "d", "y", ">", "\n", "<", "/", "h",
    "t", "m", "l", ">">>

\* str.encode() of one character: its UTF-8 bytes (an ASCII character stands
\* for its byte)
Utf8(c) ==
  CASE c = "U+00E9" -> <<"0xC3", "0xA9">>
    [] c = "U+20AC" -> <<"0xE2", "0x82", "0xAC">>
    [] c = "U+FFFD" -> <<"0xEF", "0xBF", "0xBD">>
    [] c = "U+1F600" -> <<"0xF0", "0x9F", "0x98", "0x80">>
    [] OTHER -> <<c>>

\* html.encode(): the bytes of the characters, in order (computed by halves)
RECURSIVE Encode(_)
Encode(s) ==
  IF s = <<>> THEN <<>>
  ELSE IF Len(s) = 1 THEN Utf8(s[1])
  ELSE LET half == Len(s) \div 2
       IN Encode(SubSeq(s, 1, half)) \o Encode(SubSeq(s, half + 1, Len(s)))

\* %H, %M, %S of strftime: two digits
TwoDigits(n) == IF n < 10 THEN <<"0">> \o DecStr(n) ELSE DecStr(n)

\* t.strftime('%Y-%m-%d %H:%M:%S') for t seconds after the start of the
\* process, which is taken to start at 00:00:00 of a day
Strftime(t) ==
  <<"2", "0", "2", "6", "-", "0", "1", "-", "0", "1", " ">>
    \o TwoDigits((t \div 3600) % 24) \o <<":">>
    \o TwoDigits((t % 3600) \div 60) \o <<":">> \o TwoDigits(t % 60)

\* uptime = datetime.now() - self._start_time, then the two divmod
Uptime(t, start) ==
  LET secs == t - start
  IN [hours |-> secs \div 3600,
      minutes |-> (secs % 3600) \div 60,
      seconds |-> secs % 60]

\* the f-string of _serve_status_page
Html(msg, start, up, host) ==
  HtmlUpToMessage \o msg
    \o HtmlUpToStarted \o Strftime(start)
    \o HtmlUpToUptime \o DecStr(up.hours) \o <<"h", " ">>
    \o DecStr(up.minutes) \o <<"m", " ">> \o DecStr(up.seconds) \o <<"s">>
    \o HtmlUpToHostname \o host
    \o HtmlUpToPid \o DecStr(Pid)
    \o HtmlRest

NoOutput ==
  [contentType |-> "none", contentLength |-> -1, body |-> <<>>,
   started |-> -1, uptime |-> Uptime(0, 0), at |-> -1]

\* DemoHandler._serve_status_page, run at time t by a handler built at start
ServeStatusPage(msg, start, t, host) ==
  LET html == Html(msg, start, Uptime(t, start), host)
  IN [contentType |-> "text/html", contentLength |-> Len(html),
      body |-> Encode(html), started |-> start,
      uptime |-> Uptime(t, start), at |-> t]

\* b'{"status": "ok"}'
HealthBody ==
  <<"{", "\"", "s", "t", "a", "t", "u", "s", "\"", ":", " ",
    "\"", "o", "k", "\"", "}">>

\* the elif branch of do_GET: no Content-Length header
HealthOutput ==
  [contentType |-> "application/json", contentLength |-> -1, body |-> HealthBody,
   started |-> -1, uptime |-> Uptime(0, 0), at |-> -1]

\* what the branch of do_GET that answered wrote (the body of a static file
\* is not part of the model)
DoGetOutput(kind, msg, start, t, host) ==
  CASE kind = "status_page" -> ServeStatusPage(msg, start, t, host)
    [] kind = "health" -> HealthOutput
    [] OTHER -> NoOutput

\* demo.py is not running
NoDemo ==
  /\ dpc = "none"
  /\ repeat = 0
  /\ sleepSeconds = 0
  /\ outputDir = ""
  /\ verbose = FALSE
  /\ iter = 0
  /\ dlog = <<>>
  /\ dirExists = FALSE
  /\ marker = "absent"

(***************************************************************************)
(* Init: the process has parsed its arguments                              *)
(***************************************************************************)
Init ==
  /\ pc = "start"
  /\ reqPort \in RequestedPorts
  /\ urlPath \in UrlPaths
  /\ hostname \in Hostnames
  /\ port = 0
  /\ probeLog = <<>>
  /\ occupied \in SUBSET Ports
  /\ listener = "none"
  /\ boundPort = 0
  /\ file \in {NoFile, [exists |-> TRUE, data |-> StaleData, own |-> FALSE]}
  /\ handlers = {}
  /\ shutdownRequest = FALSE
  /\ isShutDown = FALSE
  /\ blocked = 0
  /\ pending = "none"
  /\ error = "none"
  /\ exitStatus = "none"
  /\ pubResult = "none"
  /\ nSignals = 0
  /\ nHandled = 0
  /\ sigServing = FALSE
  /\ nClose = 0
  /\ nRemove = 0
  /\ warned = FALSE
  /\ serveDir = <<>>
  /\ rpc = "idle"
  /\ reqPath = <<>>
  /\ resp = NoResponse
  /\ message = DefaultMessage
  /\ now = ProcStart
  /\ nTicks = 0
  /\ startTime = -1
  /\ out = NoOutput
  /\ NoDemo

(***************************************************************************)
(* Startup: port allocation and bind                                       *)
(***************************************************************************)
\* every exit of the process that is not the normal return of main()
Abort(err, status) ==
  /\ pc' = "Stopped"
  /\ error' = err
  /\ exitStatus' = status
  /\ listener' = SocketAtExit

\* service_url_path = os.environ.get(...) with its log line, then
\* port = args.port if args.port > 0 else find_free_port()
Start ==
  /\ pc = "start" /\ Running
  /\ warned' = (urlPath = "")
  /\ IF reqPort > 0
       THEN port' = reqPort /\ pc' = "bind"
       ELSE port' = port /\ pc' = "probe"
  /\ UNCHANGED <<rvars, hvars, dvars, reqPort, urlPath, hostname, probeLog, occupied, listener,
                 boundPort, file, handlers, shutdownRequest, isShutDown,
                 blocked, pending, error, exitStatus, pubResult, nSignals,
                 nHandled, sigServing, nClose, nRemove>>

\* mutant: the range is walked from its upper end
NextCandidate_Descending(log) == RangeEnd - 1 - Len(log)

\* for port in range(start, end): the candidate of the next iteration
NextCandidate(log) == RangeStart + Len(log)

\* s.bind(("", port)) raises OSError when another process holds the port
BindSucceeds(p, occ) == p \notin occ

\* find_free_port: one iteration of the loop, or the raise after it
Probe ==
  /\ pc = "probe" /\ Running
  /\ LET p == NextCandidate(probeLog) IN
       IF p \notin RangePorts
         THEN /\ Abort("RuntimeError", "1")
              /\ UNCHANGED <<port, probeLog>>
         ELSE /\ probeLog' = Append(probeLog, [port |-> p, free |-> BindSucceeds(p, occupied)])
              /\ IF BindSucceeds(p, occupied)
                   THEN port' = p /\ pc' = "bind"
                   ELSE port' = port /\ pc' = pc
              /\ UNCHANGED <<error, exitStatus, listener>>
  /\ UNCHANGED <<rvars, hvars, dvars, warned, reqPort, urlPath, hostname, occupied, boundPort, file,
                 handlers, shutdownRequest, isShutDown, blocked, pending,
                 pubResult, nSignals, nHandled, sigServing, nClose, nRemove>>

\* mutant: the server object is built without binding (bind_and_activate=False)
Bind_NoActivate ==
  /\ pc = "bind" /\ Running
  /\ pc' = "publish"
  /\ UNCHANGED <<rvars, hvars, dvars, warned, reqPort, urlPath, hostname, port, probeLog, occupied,
                 listener, boundPort, file, handlers, shutdownRequest,
                 isShutDown, blocked, pending, error, exitStatus, pubResult,
                 nSignals, nHandled, sigServing, nClose, nRemove>>

\* mutant: a failed bind falls back to probing the range
Bind_Fallback ==
  /\ pc = "bind" /\ Running
  /\ IF BindSucceeds(port, occupied)
       THEN /\ listener' = "open"
            /\ boundPort' = port
            /\ pc' = "publish"
       ELSE /\ pc' = "probe"
            /\ UNCHANGED <<listener, boundPort>>
  /\ UNCHANGED <<rvars, hvars, dvars, warned, reqPort, urlPath, hostname, port, probeLog, occupied,
                 file, handlers, shutdownRequest, isShutDown, blocked, pending,
                 error, exitStatus, pubResult, nSignals, nHandled, sigServing,
                 nClose, nRemove>>

\* mutant: the OSError of the bind is swallowed and the startup goes on
Bind_IgnoreFailure ==
  /\ pc = "bind" /\ Running
  /\ IF BindSucceeds(port, occupied)
       THEN /\ listener' = "open"
            /\ boundPort' = port
       ELSE UNCHANGED <<listener, boundPort>>
  /\ pc' = "publish"
  /\ UNCHANGED <<rvars, hvars, dvars, warned, reqPort, urlPath, hostname, port, probeLog,
                 occupied, file, handlers, shutdownRequest, isShutDown, blocked,
                 pending, error, exitStatus, pubResult, nSignals, nHandled,
                 sigServing, nClose, nRemove>>

\* server = HTTPServer(("0.0.0.0", port), handler_factory)
Bind ==
  /\ pc = "bind" /\ Running
  /\ IF BindSucceeds(port, occupied)
       THEN /\ listener' = "open"
            /\ boundPort' = port
            /\ pc' = "publish"
            /\ UNCHANGED <<error, exitStatus>>
       ELSE /\ Abort("OSError:bind", "1")
            /\ UNCHANGED boundPort
  /\ UNCHANGED <<rvars, hvars, dvars, warned, reqPort, urlPath, hostname, port, probeLog, occupied, file,
                 handlers, shutdownRequest, isShutDown, blocked, pending,
                 pubResult, nSignals, nHandled, sigServing, nClose, nRemove>>

(***************************************************************************)
(* write_service_url                                                       *)
(***************************************************************************)
\* url = f"http://{hostname}:{port}"
Url == MakeUrl(hostname, port)

\* mutant: the file is opened for appending (mode "a")
OpenForWrite_Append(f) == [exists |-> TRUE, data |-> f.data, own |-> TRUE]

\* open(path, "w"): the file exists, empty
OpenForWrite(f) == [exists |-> TRUE, data |-> <<>>, own |-> TRUE]

\* f.write(url) and the close at the end of the with block; an unlinked file
\* takes the data with it
WriteAll(f, url) == IF f.exists THEN [f EXCEPT !.data = f.data \o url] ELSE f

\* mutant: the url is written without the test of service_url_path
PublishOpen_Unconditional ==
  /\ pc = "publish" /\ Running
  /\ \E ok \in BOOLEAN :
       IF ok
         THEN /\ file' = OpenForWrite(file)
              /\ pc' = "write"
              /\ UNCHANGED <<error, exitStatus, listener>>
         ELSE /\ Abort("OSError:open", "1")
              /\ UNCHANGED file
  /\ UNCHANGED <<rvars, hvars, dvars, warned, reqPort, urlPath, hostname, port, probeLog, occupied,
                 boundPort, handlers, shutdownRequest, isShutDown, blocked,
                 pending, pubResult, nSignals, nHandled, sigServing, nClose,
                 nRemove>>

\* if service_url_path: write_service_url(url, service_url_path) -- up to open()
PublishOpen ==
  /\ pc = "publish" /\ Running
  /\ IF urlPath = ""
       THEN /\ pc' = "install_term"
            /\ UNCHANGED <<file, error, exitStatus, listener>>
       ELSE \E ok \in BOOLEAN :
              IF ok
                THEN /\ file' = OpenForWrite(file)
                     /\ pc' = "write"
                     /\ UNCHANGED <<error, exitStatus, listener>>
                ELSE /\ Abort("OSError:open", "1")
                     /\ UNCHANGED file
  /\ UNCHANGED <<rvars, hvars, dvars, warned, reqPort, urlPath, hostname, port, probeLog, occupied,
                 boundPort, handlers, shutdownRequest, isShutDown, blocked,
                 pending, pubResult, nSignals, nHandled, sigServing, nClose,
                 nRemove>>

\* f.write(url); a failed write leaves a proper prefix of the url
PublishWrite ==
  /\ pc = "write" /\ Running
  /\ \E ok \in BOOLEAN :
       IF ok
         THEN /\ file' = WriteAll(file, Url)
              /\ pc' = "verify"
              /\ pubResult' = "written"
              /\ UNCHANGED <<error, exitStatus, listener>>
         ELSE /\ \E k \in 0 .. (Len(Url) - 1) : file' = WriteAll(file, SubSeq(Url, 1, k))
              /\ Abort("OSError:write", "1")
              /\ UNCHANGED pubResult
  /\ UNCHANGED <<rvars, hvars, dvars, warned, reqPort, urlPath, hostname, port, probeLog, occupied,
                 boundPort, handlers, shutdownRequest, isShutDown, blocked,
                 pending, nSignals, nHandled, sigServing, nClose, nRemove>>

\* if os.path.exists(path): ... else: log("ERROR: ... does not exist after write!")
PublishVerify ==
  /\ pc = "verify" /\ Running
  /\ IF file.exists
       THEN pc' = "getsize" /\ pubResult' = pubResult
       ELSE pc' = "install_term" /\ pubResult' = "missing"
  /\ UNCHANGED <<rvars, hvars, dvars, warned, reqPort, urlPath, hostname, port, probeLog, occupied, listener,
                 boundPort, file, handlers, shutdownRequest, isShutDown,
                 blocked, pending, error, exitStatus, nSignals, nHandled,
                 sigServing, nClose, nRemove>>

\* log(f"Verified: {path} exists ({os.path.getsize(path)} bytes)")
PublishGetSize ==
  /\ pc = "getsize" /\ Running
  /\ IF file.exists
       THEN /\ pc' = "install_term"
            /\ pubResult' = "verified"
            /\ UNCHANGED <<error, exitStatus, listener>>
       ELSE /\ Abort("OSError:getsize", "1")
            /\ UNCHANGED pubResult
  /\ UNCHANGED <<rvars, hvars, dvars, warned, reqPort, urlPath, hostname, port, probeLog, occupied,
                 boundPort, file, handlers, shutdownRequest, isShutDown,
                 blocked, pending, nSignals, nHandled, sigServing, nClose,
                 nRemove>>

(***************************************************************************)
(* Signal handlers and the serving loop                                    *)
(***************************************************************************)
\* signal.signal(signal.SIGTERM, shutdown_handler)
InstallTerm ==
  /\ pc = "install_term" /\ Running
  /\ handlers' = handlers \cup {"SIGTERM"}
  /\ pc' = "install_int"
  /\ UNCHANGED <<rvars, hvars, dvars, warned, reqPort, urlPath, hostname, port, probeLog, occupied, listener,
                 boundPort, file, shutdownRequest, isShutDown, blocked,
                 pending, error, exitStatus, pubResult, nSignals, nHandled,
                 sigServing, nClose, nRemove>>

\* signal.signal(signal.SIGINT, shutdown_handler)
InstallInt ==
  /\ pc = "install_int" /\ Running
  /\ handlers' = handlers \cup {"SIGINT"}
  /\ pc' = "enter"
  /\ UNCHANGED <<rvars, hvars, dvars, warned, reqPort, urlPath, hostname, port, probeLog, occupied, listener,
                 boundPort, file, shutdownRequest, isShutDown, blocked,
                 pending, error, exitStatus, pubResult, nSignals, nHandled,
                 sigServing, nClose, nRemove>>

\* server.serve_forever(): self.__is_shut_down.clear(), then the loop
EnterServe ==
  /\ pc = "enter" /\ Running
  /\ isShutDown' = FALSE
  /\ pc' = "serving"
  /\ UNCHANGED <<rvars, hvars, dvars, warned, reqPort, urlPath, hostname, port, probeLog, occupied, listener,
                 boundPort, file, handlers, shutdownRequest, blocked, pending,
                 error, exitStatus, pubResult, nSignals, nHandled, sigServing,
                 nClose, nRemove>>

\* serve_forever: one turn of "while not self.__shutdown_request" (a turn
\* with the request unset polls and handles requests: see SpecReq); the
\* loop's finally resets the request and sets the event
ServeLoop ==
  /\ pc = "serving" /\ Running
  /\ IF shutdownRequest
       THEN /\ shutdownRequest' = FALSE
            /\ isShutDown' = TRUE
            /\ pc' = "close"
       ELSE UNCHANGED <<shutdownRequest, isShutDown, pc>>
  /\ UNCHANGED <<rvars, hvars, dvars, warned, reqPort, urlPath, hostname, port, probeLog, occupied, listener,
                 boundPort, file, handlers, blocked, pending, error,
                 exitStatus, pubResult, nSignals, nHandled, sigServing, nClose,
                 nRemove>>

\* except KeyboardInterrupt: pass -- every other exception stays pending
\* while the finally block runs
Caught(exc) == IF exc = "KeyboardInterrupt" THEN "none" ELSE exc

\* serve_forever raises: an OSError of the selector, or the KeyboardInterrupt
\* the except clause of line 190 provides for
ServeForeverRaises(exc) ==
  /\ pc = "serving" /\ Running
  /\ shutdownRequest' = FALSE
  /\ isShutDown' = TRUE
  /\ pending' = Caught(exc)
  /\ pc' = "close"
  /\ UNCHANGED <<rvars, hvars, dvars, warned, reqPort, urlPath, hostname, port, probeLog, occupied, listener,
                 boundPort, file, handlers, blocked, error, exitStatus,
                 pubResult, nSignals, nHandled, sigServing, nClose, nRemove>>

\* server.shutdown(), called by shutdown_handler on the main thread:
\* self.__shutdown_request = True; self.__is_shut_down.wait()
\* the number of handler frames left waiting
ShutdownWaits(isSet, waiting) == IF isSet THEN waiting ELSE waiting + 1

\* a signal is delivered: shutdown_handler where it is installed, else the
\* default disposition (SIGTERM ends the process, SIGINT raises
\* KeyboardInterrupt outside the try block)
Signal(sig) ==
  /\ Alive
  /\ nSignals < MaxSignals
  /\ nSignals' = nSignals + 1
  /\ IF sig \in handlers
       THEN /\ nHandled' = nHandled + 1
            /\ shutdownRequest' = TRUE
            /\ blocked' = ShutdownWaits(isShutDown, blocked)
            /\ sigServing' = (sigServing \/ pc = "serving")
            /\ UNCHANGED <<pc, error, exitStatus, listener>>
       ELSE /\ Abort(IF sig = "SIGINT" THEN "KeyboardInterrupt" ELSE "killed", sig)
            /\ UNCHANGED <<nHandled, shutdownRequest, blocked, sigServing>>
  /\ UNCHANGED <<rvars, hvars, dvars, warned, reqPort, urlPath, hostname, port, probeLog, occupied,
                 boundPort, file, handlers, isShutDown, pending, pubResult,
                 nClose, nRemove>>

(***************************************************************************)
(* The finally block of main()                                             *)
(***************************************************************************)
\* mutant: the finally block goes to the clean-up without closing the server
ServerClose_Forgotten ==
  /\ pc = "close" /\ Running
  /\ pc' = "retract_check"
  /\ UNCHANGED <<rvars, hvars, dvars, warned, reqPort, urlPath, hostname, port, probeLog, occupied,
                 listener, boundPort, file, handlers, shutdownRequest,
                 isShutDown, blocked, pending, error, exitStatus, pubResult,
                 nSignals, nHandled, sigServing, nClose, nRemove>>

\* server.server_close()
ServerClose ==
  /\ pc = "close" /\ Running
  /\ listener' = "closed"
  /\ nClose' = nClose + 1
  /\ pc' = "retract_check"
  /\ UNCHANGED <<rvars, hvars, dvars, warned, reqPort, urlPath, hostname, port, probeLog, occupied,
                 boundPort, file, handlers, shutdownRequest, isShutDown,
                 blocked, pending, error, exitStatus, pubResult, nSignals,
                 nHandled, sigServing, nRemove>>

\* if service_url_path and os.path.exists(service_url_path):
RetractCheck ==
  /\ pc = "retract_check" /\ Running
  /\ pc' = IF urlPath # "" /\ file.exists THEN "retract_remove" ELSE "finish"
  /\ UNCHANGED <<rvars, hvars, dvars, warned, reqPort, urlPath, hostname, port, probeLog, occupied, listener,
                 boundPort, file, handlers, shutdownRequest, isShutDown,
                 blocked, pending, error, exitStatus, pubResult, nSignals,
                 nHandled, sigServing, nClose, nRemove>>

\* os.remove(service_url_path): FileNotFoundError when the file is gone
RetractRemove ==
  /\ pc = "retract_remove" /\ Running
  /\ IF file.exists
       THEN /\ file' = NoFile
            /\ nRemove' = nRemove + 1
            /\ pc' = "finish"
            /\ UNCHANGED <<error, exitStatus, listener>>
       ELSE /\ Abort("OSError:remove", "1")
            /\ UNCHANGED <<file, nRemove>>
  /\ UNCHANGED <<rvars, hvars, dvars, warned, reqPort, urlPath, hostname, port, probeLog, occupied,
                 boundPort, handlers, shutdownRequest, isShutDown, blocked,
                 pending, pubResult, nSignals, nHandled, sigServing, nClose>>

\* log("Service stopped."), then main() returns or the pending exception
\* leaves it
Finish ==
  /\ pc = "finish" /\ Running
  /\ pc' = "Stopped"
  /\ error' = pending
  /\ exitStatus' = IF pending = "none" THEN "0" ELSE "1"
  /\ UNCHANGED <<rvars, hvars, dvars, warned, reqPort, urlPath, hostname, port, probeLog, occupied, listener,
                 boundPort, file, handlers, shutdownRequest, isShutDown,
                 blocked, pending, pubResult, nSignals, nHandled, sigServing,
                 nClose, nRemove>>

(***************************************************************************)
(* The environment                                                         *)
(***************************************************************************)
\* another process takes or releases a port while this one has not bound
TogglePort(p) ==
  /\ Alive /\ listener = "none"
  /\ occupied' = IF p \in occupied THEN occupied \ {p} ELSE occupied \cup {p}
  /\ UNCHANGED <<rvars, hvars, dvars, warned, pc, reqPort, urlPath, hostname, port, probeLog, listener,
                 boundPort, file, handlers, shutdownRequest, isShutDown,
                 blocked, pending, error, exitStatus, pubResult, nSignals,
                 nHandled, sigServing, nClose, nRemove>>

\* another actor removes the discovery file
ExternalRemove ==
  /\ Alive /\ file.exists
  /\ file' = NoFile
  /\ UNCHANGED <<rvars, hvars, dvars, warned, pc, reqPort, urlPath, hostname, port, probeLog, occupied,
                 listener, boundPort, handlers, shutdownRequest, isShutDown,
                 blocked, pending, error, exitStatus, pubResult, nSignals,
                 nHandled, sigServing, nClose, nRemove>>

(***************************************************************************)
(* Specifications                                                          *)
(***************************************************************************)
\* the steps the main thread takes on its own
MainStep ==
  \/ Start \/ Probe \/ Bind
  \/ PublishOpen \/ PublishWrite \/ PublishVerify \/ PublishGetSize
  \/ InstallTerm \/ InstallInt \/ EnterServe \/ ServeLoop
  \/ ServerClose \/ RetractCheck \/ RetractRemove \/ Finish

Next ==
  \/ MainStep
  \/ \E exc \in {"KeyboardInterrupt", "OSError"} : ServeForeverRaises(exc)
  \/ \E sig \in Signals : Signal(sig)
  \/ \E p \in Ports : TogglePort(p)
  \/ ExternalRemove

Spec == Init /\ [][Next]_vars

\* the main thread keeps running whenever it can take a step
FairSpec == Init /\ [][Next]_vars /\ WF_vars(MainStep)

(***************************************************************************)
(* Request handling: the state of the handler for one configuration        *)
(***************************************************************************)
\* the main thread of a process with hostname h that has bound the first
\* port of the range, published its url and entered the serving loop
Serving(h) ==
  /\ pc = "serving"
  /\ reqPort = 0
  /\ urlPath = "/job/service_url"
  /\ hostname = h
  /\ port = RangeStart
  /\ probeLog = <<[port |-> RangeStart, free |-> TRUE]>>
  /\ occupied = {}
  /\ listener = "open"
  /\ boundPort = RangeStart
  /\ file = [exists |-> TRUE, data |-> MakeUrl(h, RangeStart), own |-> TRUE]
  /\ handlers = Signals
  /\ shutdownRequest = FALSE
  /\ isShutDown = FALSE
  /\ blocked = 0
  /\ pending = "none"
  /\ error = "none"
  /\ exitStatus = "none"
  /\ pubResult = "verified"
  /\ nSignals = 0
  /\ nHandled = 0
  /\ sigServing = FALSE
  /\ nClose = 0
  /\ nRemove = 0
  /\ warned = FALSE

\* no request is being handled
NoRequest ==
  /\ rpc = "idle"
  /\ reqPath = <<>>
  /\ resp = NoResponse
  /\ startTime = -1
  /\ out = NoOutput

\* a serving process with --serve_dir given or not
InitReq ==
  /\ Serving(<<"v", "m">>)
  /\ serveDir \in ServeDirs
  /\ message = DefaultMessage
  /\ now = ProcStart
  /\ nTicks = 0
  /\ NoRequest
  /\ NoDemo

\* a GET request for one of paths arrives: handler_factory builds a
\* DemoHandler for it, whose __init__ reads the clock
Arrive(paths) ==
  /\ rpc = "idle"
  /\ \E path \in paths : reqPath' = path
  /\ rpc' = "handling"
  /\ resp' = NoResponse
  /\ startTime' = now
  /\ out' = NoOutput
  /\ UNCHANGED <<lvars, dvars, serveDir, message, now, nTicks>>

NewRequest == Arrive(ReqPaths)

\* DemoHandler.do_GET answers it
DoGET ==
  /\ rpc = "handling"
  /\ resp' = DoGetResponse(serveDir, reqPath)
  /\ out' = DoGetOutput(resp'.kind, message, startTime, now, hostname)
  /\ rpc' = "done"
  /\ UNCHANGED <<lvars, dvars, serveDir, reqPath, message, now, nTicks, startTime>>

\* the handler is finished and dropped; the loop waits for the next request
RequestDone ==
  /\ rpc = "done"
  /\ rpc' = "idle"
  /\ reqPath' = <<>>
  /\ resp' = NoResponse
  /\ startTime' = -1
  /\ out' = NoOutput
  /\ UNCHANGED <<lvars, dvars, serveDir, message, now, nTicks>>

NextReq ==
  \/ NewRequest
  \/ DoGET
  \/ RequestDone

SpecReq == InitReq /\ [][NextReq]_vars

(***************************************************************************)
(* The status page over time: every message and hostname, a running clock  *)
(***************************************************************************)
\* the paths of the two fixed endpoints and some others
PagePaths == {<<>>, <<"/">>, <<"/">> \o HealthName, <<"/">> \o HealthName \o <<"/">>,
              <<"/", "x">>}

InitPage ==
  /\ \E h \in Hostnames : Serving(h)
  /\ serveDir \in ServeDirs
  /\ message \in Messages
  /\ now = ProcStart
  /\ nTicks = 0
  /\ NoRequest
  /\ NoDemo

PageRequest == Arrive(PagePaths)

\* time passes
Tick ==
  /\ nTicks < MaxTicks
  /\ \E d \in TickSteps : now' = now + d
  /\ nTicks' = nTicks + 1
  /\ UNCHANGED <<lvars, dvars, rvars, message, startTime, out>>

NextPage ==
  \/ PageRequest
  \/ DoGET
  \/ RequestDone
  \/ Tick

SpecPage == InitPage /\ [][NextPage]_vars

(***************************************************************************)
(* The batch demo app (src/demo.py)                                        *)
(***************************************************************************)
\* --repeat, --sleep_seconds (type=int: negative values are accepted) and
\* --output_dir
Repeats == -1 .. MaxRepeat
SleepValues == {-1, 0, 5}
OutputDirs == {"", "/out"}

\* the service is not running
NoService ==
  /\ pc = "none"
  /\ reqPort = 0
  /\ urlPath = ""
  /\ hostname = <<"v", "m">>
  /\ port = 0
  /\ probeLog = <<>>
  /\ occupied = {}
  /\ listener = "none"
  /\ boundPort = 0
  /\ file = NoFile
  /\ handlers = {}
  /\ shutdownRequest = FALSE
  /\ isShutDown = FALSE
  /\ blocked = 0
  /\ pending = "none"
  /\ error = "none"
  /\ exitStatus = "none"
  /\ pubResult = "none"
  /\ nSignals = 0
  /\ nHandled = 0
  /\ sigServing = FALSE
  /\ nClose = 0
  /\ nRemove = 0
  /\ warned = FALSE
  /\ serveDir = <<>>
  /\ message = DefaultMessage
  /\ now = ProcStart
  /\ nTicks = 0
  /\ NoRequest

\* one entry of dlog
Event(ev, n) == [ev |-> ev, n |-> n]

\* demo.py has parsed its arguments and printed its header
InitDemo ==
  /\ NoService
  /\ dpc = "loop"
  /\ repeat \in Repeats
  /\ sleepSeconds \in SleepValues
  /\ outputDir \in OutputDirs
  /\ verbose \in BOOLEAN
  /\ iter = 0
  /\ dlog = <<>>
  /\ dirExists \in BOOLEAN
  /\ marker \in (IF dirExists THEN {"absent", "old"} ELSE {"absent"})

\* mutant: the loop runs over range(1, repeat)
InRange_Exclusive(i, n) == 1 <= i /\ i < n

\* i is a value of range(1, n + 1)
InRange(i, n) == 1 <= i /\ i < n + 1

\* the for header and the prints of one iteration, or the end of the loop
DemoIterate ==
  /\ dpc = "loop"
  /\ IF InRange(iter + 1, repeat)
       THEN /\ iter' = iter + 1
            /\ dlog' = dlog \o <<Event("print", iter + 1)>>
                          \o (IF verbose THEN <<Event("verbose", sleepSeconds)>> ELSE <<>>)
            /\ dpc' = "sleep"
       ELSE /\ dpc' = "output"
            /\ UNCHANGED <<iter, dlog>>
  /\ UNCHANGED <<lvars, rvars, hvars, repeat, sleepSeconds, outputDir, verbose,
                 dirExists, marker>>

\* time.sleep(args.sleep_seconds): ValueError for a negative length
DemoSleep ==
  /\ dpc = "sleep"
  /\ IF sleepSeconds < 0
       THEN dpc' = "failed" /\ dlog' = dlog
       ELSE dpc' = "loop" /\ dlog' = Append(dlog, Event("sleep", sleepSeconds))
  /\ UNCHANGED <<lvars, rvars, hvars, repeat, sleepSeconds, outputDir, verbose,
                 iter, dirExists, marker>>

\* if args.output_dir:
DemoOutput ==
  /\ dpc = "output"
  /\ dpc' = IF outputDir # "" THEN "makedirs" ELSE "finish"
  /\ UNCHANGED <<lvars, rvars, hvars, repeat, sleepSeconds, outputDir, verbose,
                 iter, dlog, dirExists, marker>>

\* os.makedirs(args.output_dir, exist_ok=True): OSError when it cannot be made
DemoMakedirs ==
  /\ dpc = "makedirs"
  /\ \E ok \in BOOLEAN :
       IF ok \/ dirExists
         THEN /\ dirExists' = TRUE
              /\ dlog' = Append(dlog, Event("makedirs", 0))
              /\ dpc' = "open"
         ELSE /\ dpc' = "failed"
              /\ UNCHANGED <<dirExists, dlog>>
  /\ UNCHANGED <<lvars, rvars, hvars, repeat, sleepSeconds, outputDir, verbose,
                 iter, marker>>

\* print(f"Writing output to ..."); open(output_file, "w")
DemoOpen ==
  /\ dpc = "open"
  /\ \E ok \in BOOLEAN :
       IF ok
         THEN /\ marker' = "open"
              /\ dlog' = Append(dlog, Event("open", 0))
              /\ dpc' = "write"
         ELSE /\ dpc' = "failed"
              /\ UNCHANGED <<marker, dlog>>
  /\ UNCHANGED <<lvars, rvars, hvars, repeat, sleepSeconds, outputDir, verbose,
                 iter, dirExists>>

\* the three f.write and the close of the with block
DemoWrite ==
  /\ dpc = "write"
  /\ \E ok \in BOOLEAN :
       IF ok
         THEN marker' = "written" /\ dpc' = "finish"
         ELSE marker' = marker /\ dpc' = "failed"
  /\ UNCHANGED <<lvars, rvars, hvars, repeat, sleepSeconds, outputDir, verbose,
                 iter, dlog, dirExists>>

\* print("Done!") and the return of main()
DemoFinish ==
  /\ dpc = "finish"
  /\ dpc' = "done"
  /\ UNCHANGED <<lvars, rvars, hvars, repeat, sleepSeconds, outputDir, verbose,
                 iter, dlog, dirExists, marker>>

NextDemo ==
  \/ DemoIterate
  \/ DemoSleep
  \/ DemoOutput
  \/ DemoMakedirs
  \/ DemoOpen
  \/ DemoWrite
  \/ DemoFinish

SpecDemo == InitDemo /\ [][NextDemo]_vars

\* the process runs whenever it can take a step
FairSpecDemo == InitDemo /\ [][NextDemo]_vars /\ WF_vars(NextDemo)

(***************************************************************************)
(* Properties                                                              *)
(***************************************************************************)
IsDigits(s) == \A i \in 1 .. Len(s) : \E d \in 1 .. 10 : DigitChars[d] = s[i]
DigitVal(c) == (CHOOSE d \in 1 .. 10 : DigitChars[d] = c) - 1
RECURSIVE DecVal(_)
DecVal(s) ==
  IF s = <<>> THEN 0
  ELSE DecVal(SubSeq(s, 1, Len(s) - 1)) * 10 + DigitVal(s[Len(s)])

AutoMode == reqPort <= 0
FixedEndpoints == {<<>>, <<"/">>, <<"/">> \o HealthName}
PublishErrors == {"OSError:open", "OSError:write", "OSError:getsize"}

\* C1 (as claimed): a signal handled while the main thread is in the serving
\* loop leads to Stopped with exit status 0, the listener closed and the
\* discovery file gone.
C1_GracefulShutdown ==
  sigServing ~> (/\ pc = "Stopped"
                 /\ exitStatus = "0"
                 /\ listener = "closed"
                 /\ (urlPath # "" => ~file.exists))

\* C2 (as claimed): in no state of the running process does the discovery
\* file written by this process exist while the listener is not open.
C2_FileImpliesListener == (Alive /\ file.exists /\ file.own) => listener = "open"

\* C2 (amended): the discovery file written by this process exists with the
\* listener not open only after server_close() (until the removal of the
\* finally block) or after the process has ended; at every earlier point of
\* the run the file's presence implies an open listener.
C2_FileOnlyAfterBind ==
  (file.exists /\ file.own /\ listener # "open")
    => /\ listener = "closed"
       /\ pc \in {"retract_check", "retract_remove", "Stopped"}
       /\ (pc # "Stopped" => nClose = 1)

C2_Witness ==
  /\ pc = "retract_check" /\ file.exists /\ file.own
  /\ listener = "closed" /\ nClose = 1 /\ pubResult = "verified"

\* C3: the process removes the discovery file only in a state where the
\* listener is closed by server_close(), and once it has removed the file the
\* listener is never open again.
C3_RemoveAfterClose ==
  /\ [](nRemove > 0 => (listener = "closed" /\ nClose >= 1))
  /\ [][nRemove' # nRemove => (listener = "closed" /\ nClose >= 1 /\ listener' = "closed")]_vars

C3_Witness == nRemove = 1 /\ nClose = 1 /\ listener = "closed" /\ ~file.exists

\* C4 (as claimed): with no --serve_dir every GET of a path other than "/",
\* "" and "/health" is answered 404.
C4_NoStaticRoot404 ==
  (rpc = "done" /\ serveDir = <<>> /\ reqPath \notin FixedEndpoints) => resp.status = 404

\* t is root or lies below root
Contained(root, t) ==
  /\ StartsWith(t, root)
  /\ LET rest == SubSeq(t, Len(root) + 1, Len(t)) IN
       /\ rest = <<>> \/ rest[1] = "/" \/ EndsWith(root, "/")
       /\ \A i \in 1 .. Len(Split(rest, "/")) : Split(rest, "/")[i] # DotDotSeg
  /\ LET r == OsResolve(root)
         o == OsResolve(t)
     IN Len(r) <= Len(o) /\ SubSeq(o, 1, Len(r)) = r

\* C5: with --serve_dir given, the path the handler looks up is the root or
\* lies below it: the root is its prefix, the rest starts at a segment
\* boundary and has no ".." segment, and the file system resolves it to the
\* root or a descendant.
C5_PathContainment ==
  (rpc = "done" /\ serveDir # <<>> /\ resp.kind \notin {"status_page", "health"})
    => Contained(serveDir, resp.path)

C5_Witness ==
  /\ rpc = "done" /\ serveDir = <<"/", "r">>
  /\ reqPath = <<"%", "2", "e", "%", "2", "e", "%", "2", "f", "x">>
  /\ resp = Response(200, "file", <<"/", "r", "/", "x">>)

\* C6: in auto mode the test binds go up from the start of the range, one
\* port each; the port returned is the first that was free when probed and
\* every port below it was occupied when probed; with every port of the
\* range occupied when probed the process ends with RuntimeError, status 1,
\* never bound.
C6_LowestFreePort ==
  /\ \A i \in 1 .. Len(probeLog) :
       /\ probeLog[i].port = RangeStart + i - 1
       /\ probeLog[i].port \in RangePorts
       /\ probeLog[i].free => (i = Len(probeLog) /\ port = probeLog[i].port)
  /\ (AutoMode /\ port # 0) => (probeLog # <<>> /\ probeLog[Len(probeLog)].free)
  /\ (AutoMode /\ listener # "none") => boundPort = port
  /\ error = "RuntimeError"
       => /\ AutoMode /\ pc = "Stopped" /\ exitStatus = "1"
          /\ listener = "none" /\ port = 0
          /\ Len(probeLog) = RangeLen
          /\ \A i \in 1 .. Len(probeLog) : ~probeLog[i].free
  /\ (AutoMode /\ Len(probeLog) = RangeLen /\ port = 0)
       => (pc \in {"probe", "Stopped"} /\ listener = "none" /\ exitStatus # "0")

C6_Witness ==
  /\ reqPort = 0 /\ listener = "open" /\ boundPort = RangeStart + 1
  /\ Len(probeLog) = 2 /\ ~probeLog[1].free /\ probeLog[2].free

\* C7: with a port > 0 requested no port is probed, the listener is bound to
\* that port and no other, and a failed bind ends the process with status 1,
\* never bound.
C7_RequestedPortExact ==
  reqPort > 0
    => /\ probeLog = <<>>
       /\ port \in {0, reqPort}
       /\ (listener # "none" => boundPort = reqPort)
       /\ (listener = "none" => boundPort = 0)
       /\ (error = "OSError:bind"
             => pc = "Stopped" /\ exitStatus = "1" /\ listener = "none")
       /\ (pc \notin {"start", "bind", "Stopped"} => listener # "none")

C7_Witness ==
  /\ reqPort = 7000 /\ error = "OSError:bind" /\ pc = "Stopped"
  /\ exitStatus = "1" /\ listener = "none" /\ probeLog = <<>>

\* C8 (as claimed): no failure of publish ends the process.
C8_PublishBestEffort == error \notin PublishErrors

\* C9 (as claimed): with two or more signals handled, the first of them in
\* the serving loop, the run performs one server_close() and at most one
\* removal, which leaves no discovery file, and ends.
C9_IdempotentShutdown ==
  (sigServing /\ nHandled >= 2)
    ~> (/\ pc = "Stopped"
        /\ nClose = 1
        /\ nRemove <= 1
        /\ (urlPath # "" => ~file.exists))

\* C10: once write_service_url has written the file, the file, while it
\* exists, holds "http://" hostname ":" digits and nothing else, the digits
\* being the decimal form of the port the listener is bound to, which is the
\* requested port or, in auto mode, the port the probe returned.
C10_FileContent ==
  (pubResult # "none" /\ file.exists)
    => LET pre == <<"h", "t", "t", "p", ":", "/", "/">> \o hostname \o <<":">>
           digits == SubSeq(file.data, Len(pre) + 1, Len(file.data))
       IN /\ file.own
          /\ StartsWith(file.data, pre)
          /\ digits # <<>> /\ IsDigits(digits) /\ digits[1] # "0"
          /\ DecVal(digits) = boundPort
          /\ boundPort = port
          /\ boundPort = (IF AutoMode THEN probeLog[Len(probeLog)].port ELSE reqPort)

C10_Witness ==
  /\ pubResult = "verified" /\ file.exists /\ listener = "open"
  /\ reqPort = 0 /\ boundPort = RangeStart + 1
  /\ file.data = <<"h", "t", "t", "p", ":", "/", "/", "n", "1", ":", "8", "0", "8", "1">>

\* what the discovery path holds when this process has not touched it
Untouched(f) == f = NoFile \/ f = [exists |-> TRUE, data |-> StaleData, own |-> FALSE]

StatusPageSent == rpc = "done" /\ resp.kind = "status_page"

\* C12 (as claimed): the start time a status page reports is the time the
\* process started, whenever the request is made, and the uptime it reports
\* is the time of the request minus the time the process started.
C12_StartFixedAtStartup ==
  StatusPageSent
    => /\ out.started = ProcStart
       /\ out.uptime = Uptime(out.at, ProcStart)

\* C13 (as claimed): the Content-Length header of a status page is the number
\* of bytes written as its body.
C13_ContentLengthIsBytes ==
  StatusPageSent => out.contentLength = Len(out.body)

\* C14: a GET of exactly "/health" is answered 200 with the body
\* {"status": "ok"} and the JSON content type, without a look-up in the file
\* system, whatever --serve_dir is (a file named health lies under the
\* directories of the model), whatever the message and at every time.
C14_HealthStable ==
  (rpc = "done" /\ reqPath = <<"/">> \o HealthName)
    => /\ resp = Response(200, "health", <<>>)
       /\ out.body = HealthBody
       /\ out.contentType = "application/json"

C14_Witness ==
  /\ rpc = "done" /\ reqPath = <<"/", "h", "e", "a", "l", "t", "h">>
  /\ serveDir = <<"/", "r">> /\ IsFile(OsPathJoin(serveDir, HealthName))
  /\ now >= 3600 /\ message # DefaultMessage
  /\ resp.status = 200 /\ out.body = HealthBody

\* C15: the discovery file is opened, written and verified only with the
\* listener bound to the chosen port; a failed bind of the listener -- also
\* of a port the probe found free and another process took since -- ends the
\* process at once with status 1: no listener, no further probe or bind, the
\* discovery file untouched, no signal handler installed, the serving loop
\* and the finally block never entered.
C15_BindFailureFatal ==
  /\ (file.own \/ pubResult # "none" \/ pc \in {"write", "verify", "getsize"})
       => (listener # "none" /\ boundPort = port /\ port # 0)
  /\ (pc \notin {"start", "probe", "bind", "Stopped"}) => listener # "none"
  /\ Cardinality({i \in 1 .. Len(probeLog) : probeLog[i].free}) <= 1
  /\ error = "OSError:bind"
       => /\ pc = "Stopped" /\ exitStatus = "1"
          /\ listener = "none" /\ boundPort = 0
          /\ Untouched(file) /\ pubResult = "none"
          /\ handlers = {} /\ nHandled = 0 /\ ~sigServing
          /\ nClose = 0 /\ nRemove = 0
          /\ port \in occupied
          /\ IF AutoMode
               THEN /\ probeLog # <<>>
                    /\ probeLog[Len(probeLog)] = [port |-> port, free |-> TRUE]
               ELSE probeLog = <<>> /\ port = reqPort

C15_Witness ==
  /\ reqPort = 0 /\ error = "OSError:bind" /\ pc = "Stopped" /\ exitStatus = "1"
  /\ Len(probeLog) = 2 /\ probeLog[2] = [port |-> RangeStart + 1, free |-> TRUE]
  /\ port = RangeStart + 1 /\ port \in occupied
  /\ urlPath # "" /\ ~file.exists /\ handlers = {}

\* the shutdown sequence has run: one server_close(), the listener closed,
\* no discovery file left where a path is configured
SequenceRun ==
  /\ nClose = 1 /\ listener = "closed"
  /\ (urlPath # "" => ~file.exists)

\* C16 (as claimed): server_close() is called at most once and only by the
\* finally block of main() (the listener is otherwise closed only by the end
\* of the process); leaving serve_forever() by an exception leads to the
\* shutdown sequence having run and the process stopped; and a shutdown
\* requested by a signal in the serving loop leads to the same.
C16_OneShutdownSequence ==
  /\ [](nClose <= 1)
  /\ [][(listener = "open" /\ listener' = "closed")
          => \/ pc = "close" /\ nClose' = nClose + 1
             \/ pc' = "Stopped" /\ error' # "none" /\ nClose' = nClose]_vars
  /\ [][nClose' # nClose => (pc = "close" /\ pc' = "retract_check")]_vars
  /\ (pc = "close") ~> (pc = "Stopped" /\ SequenceRun)
  /\ (pc = "serving" /\ shutdownRequest) ~> (pc = "Stopped" /\ SequenceRun)

\* C17 (as claimed): a run that has reached the finally block ends without
\* an error of the removal, whenever the discovery file disappeared: its exit
\* status is that of the way the serving loop was left.
C17_RetractNeverFails ==
  (pc = "Stopped" /\ nClose = 1)
    => /\ error # "OSError:remove"
       /\ error = pending
       /\ exitStatus = (IF pending = "none" THEN "0" ELSE "1")

\* C18 (as claimed): no process that a signal ended after it had written the
\* discovery file leaves the file behind.
C18_NoSignalExitLeavesFile ==
  (pc = "Stopped" /\ exitStatus \in Signals /\ pubResult # "none") => ~file.exists

Dropped(seg) == seg = <<>> \/ seg = DotSeg \/ seg = DotDotSeg

\* the segments of the normalized and decoded request path that are kept
KeptSegs(path) ==
  SelectSeq(Split(Unquote(Normpath(path)), "/"), LAMBDA seg : ~Dropped(seg))

\* root followed by segs, one separator before each
RootWith(root, segs) ==
  IF segs = <<>> THEN root
  ELSE (IF EndsWith(root, "/") THEN root ELSE root \o <<"/">>) \o JoinWith(segs, "/")

StaticLookup == rpc = "done" /\ serveDir # <<>> /\ resp.kind \notin {"status_page", "health"}

Max(a, b) == IF a >= b THEN a ELSE b
Events(ev) == SelectSeq(dlog, LAMBDA e : e.ev = ev)
\* dlog without the lines of --verbose
Calls == SelectSeq(dlog, LAMBDA e : e.ev # "verbose")

\* C20: every run of demo.py ends; with a sleep interval >= 0 the prints of
\* the message are numbered 1, 2, ... in order, there are max(repeat, 0) of
\* them once the loop is over, each is followed by one sleep of the given
\* length before anything else, and the run ends normally unless the output
\* cannot be written; demo-output.txt is opened and written only after the
\* last iteration and only with --output_dir given; with no --output_dir no
\* directory or file is made or changed.
C20_DemoRun ==
  /\ <>(dpc \in {"done", "failed"})
  /\ [](sleepSeconds >= 0
          => /\ \A k \in 1 .. Len(Events("print")) : Events("print")[k].n = k
             /\ Len(Events("print")) <= Max(repeat, 0)
             /\ Len(Events("sleep")) =
                  (IF dpc = "sleep" THEN Len(Events("print")) - 1 ELSE Len(Events("print")))
             /\ \A j \in 1 .. Len(Calls) :
                  Calls[j].ev = "print"
                    => IF j = Len(Calls) THEN dpc = "sleep"
                       ELSE Calls[j + 1] = Event("sleep", sleepSeconds)
             /\ (dpc \notin {"loop", "sleep"})
                  => (Len(Events("print")) = Max(repeat, 0) /\ iter = Max(repeat, 0))
             /\ (dpc = "failed" => outputDir # "")
             /\ (dpc = "done" /\ outputDir # "") => (marker = "written" /\ dirExists))
  /\ [](marker \in {"open", "written"}
          => /\ outputDir # "" /\ dirExists
             /\ dpc \in {"write", "finish", "done", "failed"}
             /\ Len(Events("print")) = Max(repeat, 0)
             /\ Calls[Len(Calls)].ev = "open"
             /\ Len(Events("open")) = 1)
  /\ [](outputDir = "" => (Events("makedirs") = <<>> /\ Events("open") = <<>>))
  /\ [][outputDir = "" => (dirExists' = dirExists /\ marker' = marker)]_vars

C20_Witness ==
  /\ dpc = "done" /\ repeat = 3 /\ sleepSeconds = 5 /\ outputDir # "" /\ ~verbose
  /\ marker = "written"
  /\ dlog = <<Event("print", 1), Event("sleep", 5), Event("print", 2), Event("sleep", 5),
              Event("print", 3), Event("sleep", 5), Event("makedirs", 0), Event("open", 0)>>

====
